---- MODULE Spec2Model ----
\* Single-instrument matching engine of src/index.ts: two accounts, a bid and
\* an ask array, an order-id counter and the HTTP handlers that act on them.
\* Every handler runs to completion on the Node event loop, so each handler
\* is one action.  Prices and quantities are integers (exact in IEEE doubles).
EXTENDS Integers, Sequences, FiniteSets, TLC

VARIABLES users, bids, asks, nextOrderId, now, res, batch

vars == <<users, bids, asks, nextOrderId, now, res, batch>>

\* ------------------------------------------------------------------ bounds
MaxOrderId == 2
MaxClock == 1

\* ------------------------------------------------------- program constants
TICKER == "AAPL"
BUY == "BUY"
SELL == "SELL"
SeedTicker == 10
SeedUSD == 50000

\* ------------------------------------------------------------ input sets
\* well-formed order requests, and one malformed request per validation branch
OrderInputs ==
    ({BUY, SELL} \X {"1", "2"} \X {2000, 10000} \X {3, 6})
    \cup {<<"INVALID", "1", 2000, 1>>, <<BUY, "", 2000, 1>>, <<BUY, "1", 2000, 0>>,
          <<SELL, "2", 0, 1>>, <<SELL, "2", 0 - 100, 1>>, <<BUY, "3", 2000, 1>>,
          <<SELL, "1", 2000, 11>>}
QuoteInputs ==
    ({BUY, SELL} \X {3, 7}) \cup {<<"INVALID", 1>>, <<BUY, 0>>}
UserIdInputs == {"1", "2", "3"}
CancelUserIdInputs == {"1", "2"}
\* request bodies carry the order id either as a JSON number or as a string
OrderIdInputs ==
    [t : {"num"}, v : 1..MaxOrderId] \cup [t : {"str"}, v : {"1", "non-existent-id"}]

\* ---------------------------------------------------------------- helpers
Min(a, b) == IF a <= b THEN a ELSE b

\* Number.prototype.toString / String.prototype.toString on a request value
toString(x) == IF x.t = "num" THEN ToString(x.v) ELSE x.v

\* mutant: splice(i) without a delete count drops the whole tail
RemoveAt_tail(s, i) == SubSeq(s, 1, i - 1)

\* splice(i, 1)
RemoveAt(s, i) == SubSeq(s, 1, i - 1) \o SubSeq(s, i + 1, Len(s))

Range(s) == {s[i] : i \in 1..Len(s)}

\* comparators, as written in the source
compareFillBuy(a, b) ==
    IF a.price = b.price THEN a.timestamp - b.timestamp ELSE a.price - b.price

\* mutant: the SELL pass walks the bids from the lowest price
compareFillSell_ascending(a, b) ==
    IF a.price # b.price THEN a.price - b.price ELSE a.timestamp - b.timestamp

compareFillSell(a, b) ==
    IF a.price = b.price THEN a.timestamp - b.timestamp ELSE b.price - a.price

compareBids(a, b) ==
    IF b.price - a.price # 0 THEN b.price - a.price ELSE a.timestamp - b.timestamp

compareAsks(a, b) ==
    IF a.price - b.price # 0 THEN a.price - b.price ELSE a.timestamp - b.timestamp

\* mutant: the SELL quote walks the bids from the lowest price
compareQuoteSell_ascending(a, b) == a.price - b.price

compareQuoteSell(a, b) == b.price - a.price

\* mutant: the BUY quote walks the asks from the highest price
compareQuoteBuy_descending(a, b) == b.price - a.price

compareQuoteBuy(a, b) == a.price - b.price

\* the comparator callback named cmp, applied to a and b
Compare(cmp, a, b) ==
    CASE cmp = "fillBuy" -> compareFillBuy(a, b)
      [] cmp = "fillSell" -> compareFillSell(a, b)
      [] cmp = "bids" -> compareBids(a, b)
      [] cmp = "asks" -> compareAsks(a, b)
      [] cmp = "quoteSell" -> compareQuoteSell(a, b)
      [] cmp = "quoteBuy" -> compareQuoteBuy(a, b)

\* Array.prototype.sort is stable: an element is placed before the first
\* already-placed element that the comparator orders strictly after it.
RECURSIVE InsertStable(_, _, _)
InsertStable(cmp, o, s) ==
    IF s = <<>> THEN <<o>>
    ELSE IF Compare(cmp, o, Head(s)) < 0 THEN <<o>> \o s
    ELSE <<Head(s)>> \o InsertStable(cmp, o, Tail(s))

RECURSIVE SortStable(_, _)
SortStable(cmp, s) ==
    IF s = <<>> THEN <<>>
    ELSE InsertStable(cmp, s[Len(s)], SortStable(cmp, SubSeq(s, 1, Len(s) - 1)))

\* ------------------------------------------------------------------ state
SeedUsers ==
    [u \in {"1", "2"} |-> [AAPL |-> SeedTicker, USD |-> SeedUSD]]

NoRes ==
    [op |-> "init", side |-> "", userId |-> "", price |-> 0, quantity |-> 0,
     cancelId |-> "", status |-> 0, error |-> "", orderId |-> 0,
     filledQuantity |-> 0, remainingQuantity |-> 0, fills |-> <<>>,
     quote |-> 0, depth |-> <<>>, balances |-> <<>>]

\* what the orders of a batch sent together ask of each account: the cost of
\* its BUY orders and the size of its SELL orders, each counted up to one past
\* the seed balance
NoBatch == [u \in {"1", "2"} |-> [buy |-> 0, sell |-> 0]]

Init ==
    /\ users = SeedUsers
    /\ bids = <<>>
    /\ asks = <<>>
    /\ nextOrderId = 1
    /\ now = 0
    /\ res = NoRes
    /\ batch = NoBatch

\* ---------------------------------------------------------- updateBalances
\* mutant: the SELL branch repeats the BUY branch
updateBalances_sameDirection(bal, fromUserId, toUserId, price, quantity, side) ==
    LET b1 == [bal EXCEPT ![fromUserId].AAPL = @ - quantity]
        b2 == [b1 EXCEPT ![fromUserId].USD = @ + price * quantity]
        b3 == [b2 EXCEPT ![toUserId].AAPL = @ + quantity]
    IN  [b3 EXCEPT ![toUserId].USD = @ - price * quantity]

\* mutant: the taker's quote-asset leg of a BUY fill is left out
updateBalances_noTakerDebit(bal, fromUserId, toUserId, price, quantity, side) ==
    IF side = BUY
    THEN LET b1 == [bal EXCEPT ![fromUserId].AAPL = @ - quantity]
             b2 == [b1 EXCEPT ![fromUserId].USD = @ + price * quantity]
         IN  [b2 EXCEPT ![toUserId].AAPL = @ + quantity]
    ELSE LET b1 == [bal EXCEPT ![fromUserId].AAPL = @ + quantity]
             b2 == [b1 EXCEPT ![fromUserId].USD = @ - price * quantity]
             b3 == [b2 EXCEPT ![toUserId].AAPL = @ - quantity]
         IN  [b3 EXCEPT ![toUserId].USD = @ + price * quantity]

\* The four assignments run in order on the two looked-up user objects, which
\* are the same object when maker and taker are the same account.
updateBalances(bal, fromUserId, toUserId, price, quantity, side) ==
    IF side = BUY
    THEN LET b1 == [bal EXCEPT ![fromUserId].AAPL = @ - quantity]
             b2 == [b1 EXCEPT ![fromUserId].USD = @ + price * quantity]
             b3 == [b2 EXCEPT ![toUserId].AAPL = @ + quantity]
         IN  [b3 EXCEPT ![toUserId].USD = @ - price * quantity]
    ELSE LET b1 == [bal EXCEPT ![fromUserId].AAPL = @ + quantity]
             b2 == [b1 EXCEPT ![fromUserId].USD = @ - price * quantity]
             b3 == [b2 EXCEPT ![toUserId].AAPL = @ - quantity]
         IN  [b3 EXCEPT ![toUserId].USD = @ + price * quantity]

\* -------------------------------------------------------------- fillOrders
\* mutant: an order at exactly the incoming limit is skipped too
Ineligible_atLimit(side, order, price) ==
    \/ (side = BUY /\ order.price >= price)
    \/ (side = SELL /\ order.price <= price)

\* mutant: no order is skipped
Ineligible_never(side, order, price) == FALSE

\* an opposite order outside the incoming limit is skipped (continue)
Ineligible(side, order, price) ==
    \/ (side = BUY /\ order.price > price)
    \/ (side = SELL /\ order.price < price)

\* mutant: the whole maker quantity is taken
fillQuantityOf_noMin(remainingQuantity, order) == order.quantity

\* fill quantity of one step
fillQuantityOf(remainingQuantity, order) == Min(remainingQuantity, order.quantity)

\* The for loop from index i (1-based) on.  fills is the trace of the
\* updateBalances calls in the order they are made.
RECURSIVE fillLoop(_, _, _, _, _, _, _, _)
fillLoop(side, userId, price, i, opp, bal, remainingQuantity, fills) ==
    IF ~(i <= Len(opp) /\ remainingQuantity > 0)
    THEN [opp |-> opp, bal |-> bal, remainingQuantity |-> remainingQuantity,
          fills |-> fills, threw |-> FALSE]
    ELSE LET order == opp[i] IN
         IF Ineligible(side, order, price)
         THEN fillLoop(side, userId, price, i + 1, opp, bal, remainingQuantity, fills)
         ELSE LET fillQuantity == fillQuantityOf(remainingQuantity, order)
                  fill == [id |-> order.id, userId |-> order.userId,
                           price |-> order.price, quantity |-> fillQuantity]
              IN  IF order.userId \notin DOMAIN bal \/ userId \notin DOMAIN bal
                  THEN \* updateBalances throws 'User not found'
                       [opp |-> opp, bal |-> bal,
                        remainingQuantity |-> remainingQuantity - fillQuantity,
                        fills |-> fills, threw |-> TRUE]
                  ELSE LET bal2 == updateBalances(bal, order.userId, userId,
                                                  order.price, fillQuantity, side)
                       IN  IF fillQuantity = order.quantity
                           THEN fillLoop(side, userId, price, i, RemoveAt(opp, i), bal2,
                                         remainingQuantity - fillQuantity,
                                         Append(fills, fill))
                           ELSE fillLoop(side, userId, price, i + 1,
                                         [opp EXCEPT ![i].quantity = @ - fillQuantity],
                                         bal2, remainingQuantity - fillQuantity,
                                         Append(fills, fill))

\* mutant: the comparators of the two sides are swapped
sortOpposite_swapped(side, opp) ==
    IF side = BUY THEN SortStable("fillSell", opp)
    ELSE SortStable("fillBuy", opp)

\* the in-place sort of the opposite side that precedes the loop
sortOpposite(side, opp) ==
    IF side = BUY THEN SortStable("fillBuy", opp)
    ELSE SortStable("fillSell", opp)

fillOrders(side, userId, price, quantity, bal, opp) ==
    fillLoop(side, userId, price, 1, sortOpposite(side, opp), bal, quantity, <<>>)

\* ------------------------------------------------------------ POST /order
OrderRes(side, userId, price, quantity, status, error) ==
    [NoRes EXCEPT !.op = "order", !.side = side, !.userId = userId,
                  !.price = price, !.quantity = quantity,
                  !.status = status, !.error = error]

InvalidOrderParameters(side, userId, price, quantity) ==
    side \notin {BUY, SELL} \/ userId = "" \/ quantity <= 0 \/ price <= 0

\* mutant: only the BUY leg is checked
InsufficientBalance_buyOnly(side, balances, price, quantity) ==
    side = BUY /\ balances.USD < price * quantity

InsufficientBalance(side, balances, price, quantity) ==
    IF side = BUY THEN balances.USD < price * quantity
    ELSE balances.AAPL < quantity

InsufficientError(side) ==
    IF side = BUY THEN "Insufficient USD balance" ELSE "Insufficient AAPL balance"

\* mutant: the remainder is pushed and the side is not sorted
restOrder_noSort(side, book, newOrder) == Append(book, newOrder)

\* the push of the remainder followed by the sort of the side it went to
restOrder(side, book, newOrder) ==
    IF side = BUY THEN SortStable("bids", Append(book, newOrder))
    ELSE SortStable("asks", Append(book, newOrder))

\* clock is the value Date.now() returns if the handler reads it; it is read
\* only when a remainder rests, and never runs backwards.
SubmitOrder(side, userId, price, quantity, clock) ==
    IF InvalidOrderParameters(side, userId, price, quantity)
       THEN /\ clock = now
            /\ res' = OrderRes(side, userId, price, quantity, 400, "Invalid order parameters")
            /\ UNCHANGED <<users, bids, asks, nextOrderId, now>>
       ELSE IF userId \notin DOMAIN users
       THEN /\ clock = now
            /\ res' = OrderRes(side, userId, price, quantity, 404, "User not found")
            /\ UNCHANGED <<users, bids, asks, nextOrderId, now>>
       ELSE IF InsufficientBalance(side, users[userId], price, quantity)
       THEN /\ clock = now
            /\ res' = OrderRes(side, userId, price, quantity, 400, InsufficientError(side))
            /\ UNCHANGED <<users, bids, asks, nextOrderId, now>>
       ELSE LET f == fillOrders(side, userId, price, quantity, users,
                                IF side = BUY THEN asks ELSE bids)
                filledQuantity == quantity - f.remainingQuantity
                remainingQuantity == quantity - filledQuantity
                rests == ~f.threw /\ remainingQuantity > 0
                newOrder == [id |-> ToString(nextOrderId), userId |-> userId,
                             price |-> price, quantity |-> remainingQuantity,
                             timestamp |-> clock]
                own == IF side = BUY THEN bids ELSE asks
                own2 == IF rests THEN restOrder(side, own, newOrder) ELSE own
            IN  /\ rests => nextOrderId <= MaxOrderId
                /\ ~rests => clock = now
                /\ users' = f.bal
                /\ bids' = IF side = BUY THEN own2 ELSE f.opp
                /\ asks' = IF side = BUY THEN f.opp ELSE own2
                /\ nextOrderId' = IF rests THEN nextOrderId + 1 ELSE nextOrderId
                /\ now' = IF rests THEN clock ELSE now
                /\ res' = IF f.threw
                          THEN OrderRes(side, userId, price, quantity, 500, "User not found")
                          ELSE [OrderRes(side, userId, price, quantity, 200, "")
                                 EXCEPT !.orderId = nextOrderId' - 1,
                                        !.filledQuantity = filledQuantity,
                                        !.remainingQuantity = remainingQuantity,
                                        !.fills = f.fills]

\* ----------------------------------------------------------- POST /cancel
\* mutant: the owner is not compared
findIndex_anyOwner(orders, orderId, userId) ==
    LET hits == {i \in 1..Len(orders) : orders[i].id = toString(orderId)}
    IN  IF hits = {} THEN 0 ELSE CHOOSE i \in hits : \A j \in hits : i <= j

\* findIndex of the inner cancelOrder; 0 stands for -1
findIndex(orders, orderId, userId) ==
    LET hits == {i \in 1..Len(orders) :
                    orders[i].id = toString(orderId) /\ orders[i].userId = userId}
    IN  IF hits = {} THEN 0 ELSE CHOOSE i \in hits : \A j \in hits : i <= j

CancelRes(orderId, userId, status, error) ==
    [NoRes EXCEPT !.op = "cancel", !.cancelId = toString(orderId), !.userId = userId,
                  !.status = status, !.error = error]

Cancel(orderId, userId) ==
    LET ib == findIndex(bids, orderId, userId)
        ia == findIndex(asks, orderId, userId)
    IN  /\ bids' = IF ib # 0 THEN RemoveAt(bids, ib) ELSE bids
        /\ asks' = IF ib = 0 /\ ia # 0 THEN RemoveAt(asks, ia) ELSE asks
        /\ res' = IF ib # 0 \/ ia # 0 THEN CancelRes(orderId, userId, 200, "")
                  ELSE CancelRes(orderId, userId, 404, "Order not found")
        /\ UNCHANGED <<users, nextOrderId, now>>

\* ------------------------------------------------------------ POST /reset
\* mutant: the ask side is not cleared
Reset_keepAsks ==
    /\ users' = SeedUsers
    /\ bids' = <<>>
    /\ asks' = asks
    /\ nextOrderId' = 1
    /\ res' = [NoRes EXCEPT !.op = "reset", !.status = 200]
    /\ UNCHANGED now

Reset ==
    /\ users' = SeedUsers
    /\ bids' = <<>>
    /\ asks' = <<>>
    /\ nextOrderId' = 1
    /\ res' = [NoRes EXCEPT !.op = "reset", !.status = 200]
    /\ UNCHANGED now

\* ------------------------------------------------------------- GET /depth
\* mutant: a second order at a price overwrites the level instead of adding
RECURSIVE depthLoop_overwrite(_, _, _)
depthLoop_overwrite(orders, side, depth) ==
    IF orders = <<>> THEN depth
    ELSE LET o == Head(orders)
             k == ToString(o.price)
         IN  IF k \notin DOMAIN depth
             THEN depthLoop_overwrite(Tail(orders), side,
                            depth @@ (k :> [quantity |-> o.quantity, side |-> side]))
             ELSE depthLoop_overwrite(Tail(orders), side,
                            [depth EXCEPT ![k].quantity = o.quantity])

\* depth is keyed by the price converted to a property name
RECURSIVE depthLoop(_, _, _)
depthLoop(orders, side, depth) ==
    IF orders = <<>> THEN depth
    ELSE LET o == Head(orders)
             k == ToString(o.price)
         IN  IF k \notin DOMAIN depth
             THEN depthLoop(Tail(orders), side,
                            depth @@ (k :> [quantity |-> o.quantity, side |-> side]))
             ELSE depthLoop(Tail(orders), side,
                            [depth EXCEPT ![k].quantity = @ + o.quantity])

getDepth(bs, as) == depthLoop(as, SELL, depthLoop(bs, BUY, <<>>))

Depth ==
    /\ res' = [NoRes EXCEPT !.op = "depth", !.status = 200, !.depth = getDepth(bids, asks)]
    /\ UNCHANGED <<users, bids, asks, nextOrderId, now>>

\* --------------------------------------------------- GET /balance/:userId
Balance(userId) ==
    /\ res' = IF userId \notin DOMAIN users
              THEN [NoRes EXCEPT !.op = "balance", !.userId = userId, !.status = 404,
                                 !.error = "User not found"]
              ELSE [NoRes EXCEPT !.op = "balance", !.userId = userId, !.status = 200,
                                 !.balances = users[userId]]
    /\ UNCHANGED <<users, bids, asks, nextOrderId, now>>

\* ------------------------------------------------------------ POST /quote
RECURSIVE quoteLoop(_, _, _)
quoteLoop(sortedOrders, remainingQuantity, totalCost) ==
    IF sortedOrders = <<>> \/ remainingQuantity <= 0
    THEN [remainingQuantity |-> remainingQuantity, totalCost |-> totalCost]
    ELSE LET order == Head(sortedOrders)
             fillQuantity == Min(remainingQuantity, order.quantity)
         IN  quoteLoop(Tail(sortedOrders), remainingQuantity - fillQuantity,
                       totalCost + fillQuantity * order.price)

getQuote(side, quantity, bs, as) ==
    LET orders == IF side = SELL THEN bs ELSE as
        sortedOrders == IF side = SELL THEN SortStable("quoteSell", orders)
                        ELSE SortStable("quoteBuy", orders)
    IN  quoteLoop(sortedOrders, quantity, 0)

QuoteRes(side, quantity, status, error) ==
    [NoRes EXCEPT !.op = "quote", !.side = side, !.quantity = quantity,
                  !.status = status, !.error = error]

Quote(side, quantity) ==
    /\ res' = IF side \notin {BUY, SELL} \/ quantity <= 0
              THEN QuoteRes(side, quantity, 400, "Invalid quote parameters")
              ELSE LET q == getQuote(side, quantity, bids, asks)
                   IN  IF q.remainingQuantity > 0
                       THEN QuoteRes(side, quantity, 400, "Not enough liquidity")
                       ELSE [QuoteRes(side, quantity, 200, "") EXCEPT !.quote = q.totalCost]
    /\ UNCHANGED <<users, bids, asks, nextOrderId, now>>

\* ------------------------------------------------------------------- Next
Next ==
    \/ \E in \in OrderInputs : \E clock \in now..MaxClock :
           SubmitOrder(in[1], in[2], in[3], in[4], clock)
    \/ \E orderId \in OrderIdInputs : \E userId \in CancelUserIdInputs : Cancel(orderId, userId)
    \/ Reset
    \/ Depth
    \/ \E userId \in UserIdInputs : Balance(userId)
    \/ \E in \in QuoteInputs : Quote(in[1], in[2])

Spec == Init /\ [][Next /\ UNCHANGED batch]_vars

\* ------------------------------------------- orders sent at the same time
\* Requests sent together reach the handler one at a time, in any order.
BatchInputs == {in \in OrderInputs : in[1] \in {BUY, SELL} /\ in[2] \in {"1", "2"}
                                      /\ in[3] > 0 /\ in[4] > 0}

addToBatch(b, side, userId, price, quantity) ==
    IF side = BUY
    THEN [b EXCEPT ![userId].buy = Min(@ + price * quantity, SeedUSD + 1)]
    ELSE [b EXCEPT ![userId].sell = Min(@ + quantity, SeedTicker + 1)]

NextBatch ==
    \E in \in BatchInputs : \E clock \in now..MaxClock :
        /\ SubmitOrder(in[1], in[2], in[3], in[4], clock)
        /\ batch' = addToBatch(batch, in[1], in[2], in[3], in[4])

SpecBatch == Init /\ [][NextBatch]_vars

\* ================================================================= claims
BookOrders == Range(bids) \cup Range(asks)

AcceptedOrder(r) == r.op = "order" /\ r.status = 200

\* C1: balance conservation - in every reachable state the base-asset balances
\* of all accounts sum to the seed total and so do the quote-asset balances,
\* whatever submissions, cancellations and quotes came before, self-trades
\* included.
BalanceConservation ==
    /\ users["1"].AAPL + users["2"].AAPL = 2 * SeedTicker
    /\ users["1"].USD + users["2"].USD = 2 * SeedUSD

\* a submission was just filled against a resting order of the same account
\* and against a resting order of the other account
BalanceConservationWitness ==
    /\ AcceptedOrder(res)
    /\ \E k \in 1..Len(res.fills) : res.fills[k].userId = res.userId
    /\ \E k \in 1..Len(res.fills) : res.fills[k].userId # res.userId
    /\ users # SeedUsers

\* C2: no negative balances - every account's base-asset and quote-asset
\* balance is >= 0 in every reachable state.
NoNegativeBalances ==
    \A u \in DOMAIN users : users[u].AAPL >= 0 /\ users[u].USD >= 0

\* ---- reading a matching pass off a step: the book before, the result after
\* numeric value of an order id; ids are handed out in arrival order
IdNum(id) == CHOOSE n \in 0..(MaxOrderId + 1) : ToString(n) = id

\* the side the incoming order of result r is matched against, before the pass
OppositeBefore(r) == IF r.side = BUY THEN asks ELSE bids

\* a resting order the incoming order of r may trade with
Eligible(r, o) ==
    IF r.side = BUY THEN o.price <= r.price ELSE o.price >= r.price

\* a is strictly better priced than b for the incoming order of r
BetterPrice(r, a, b) ==
    IF r.side = BUY THEN a.price < b.price ELSE a.price > b.price

\* position of the first fill of order id in the trace, 0 if it got none
FirstFill(fills, id) ==
    LET hits == {k \in 1..Len(fills) : fills[k].id = id}
    IN  IF hits = {} THEN 0 ELSE CHOOSE k \in hits : \A j \in hits : k <= j

RECURSIVE FilledOf(_, _)
FilledOf(fills, id) ==
    IF fills = <<>> THEN 0
    ELSE (IF Head(fills).id = id THEN Head(fills).quantity ELSE 0) + FilledOf(Tail(fills), id)

PriorityStep(r) ==
    \A a \in Range(OppositeBefore(r)) : \A b \in Range(OppositeBefore(r)) :
        (/\ a.id # b.id
         /\ Eligible(r, a) /\ Eligible(r, b)
         /\ FirstFill(r.fills, b.id) # 0
         /\ \/ BetterPrice(r, a, b)
            \/ (a.price = b.price /\ IdNum(a.id) < IdNum(b.id)))
        => /\ FirstFill(r.fills, a.id) # 0
           /\ FirstFill(r.fills, a.id) < FirstFill(r.fills, b.id)
           /\ a.price = b.price => FilledOf(r.fills, a.id) = a.quantity

\* C3: price-time priority - in the matching pass of any accepted order, of
\* two eligible resting orders the better priced one is filled before the
\* other gets anything, and at equal price the one that arrived first is
\* filled first and is fully consumed before the later one gets anything.
PriceTimePriority ==
    [][AcceptedOrder(res') => PriorityStep(res')]_vars

\* a pass that filled two resting orders of different price, the better
\* priced one having arrived last; and one that filled two of equal price
PriceTimePriorityWitness ==
    /\ AcceptedOrder(res)
    /\ Len(res.fills) = 2
    /\ res.fills[1].price # res.fills[2].price
    /\ IdNum(res.fills[1].id) > IdNum(res.fills[2].id)

PriceTimePriorityTieWitness ==
    /\ AcceptedOrder(res)
    /\ Len(res.fills) = 2
    /\ res.fills[1].price = res.fills[2].price
    /\ res.fills[2].quantity < 6

\* ---- C4
Malformed(r) == r.side \notin {BUY, SELL} \/ r.quantity <= 0 \/ r.price <= 0

UnknownAccount(r) == r.userId \notin {"1", "2"}

\* the full order is not covered by the submitter's balance before the call
ShortOfBalance(r) ==
    /\ ~Malformed(r) /\ ~UnknownAccount(r)
    /\ IF r.side = BUY THEN users[r.userId].USD < r.price * r.quantity
       ELSE users[r.userId].AAPL < r.quantity

MustReject(r) == Malformed(r) \/ UnknownAccount(r) \/ ShortOfBalance(r)

\* C4: all-or-nothing rejection - a submission with a bad side, quantity <= 0,
\* price <= 0, an unknown account or a balance short of the full order is
\* rejected, and a rejected submission leaves both book sides, every balance
\* and the order-id counter as they were.
AllOrNothingRejection ==
    [][res'.op = "order" =>
          /\ MustReject(res') => res'.status # 200
          /\ res'.status # 200 =>
                /\ MustReject(res')
                /\ UNCHANGED <<users, bids, asks, nextOrderId>>]_vars

\* a BUY was refused for its full cost although an ask within its limit rests
\* and the part that ask could fill was affordable
AllOrNothingRejectionWitness ==
    /\ res.op = "order" /\ res.status = 400
    /\ res.error = "Insufficient USD balance"
    /\ \E o \in Range(asks) :
          /\ o.price <= res.price
          /\ users[res.userId].USD >= o.price * Min(res.quantity, o.quantity)

\* ---- C5
IdsOf(s) == {s[i].id : i \in 1..Len(s)}

\* sequence s with its i-th element taken out
WithoutAt(s, i) == [j \in 1..(Len(s) - 1) |-> IF j < i THEN s[j] ELSE s[j + 1]]

\* ownB/ownA: the submitter's side before/after; oppB/oppA: the other side
RestOrCompleteStep(r, ownB, ownA, oppB, oppA) ==
    /\ 0 <= r.filledQuantity /\ r.filledQuantity <= r.quantity
    /\ r.filledQuantity + r.remainingQuantity = r.quantity
    /\ IdsOf(oppA) \subseteq IdsOf(oppB)
    /\ IF r.remainingQuantity > 0
       THEN /\ Len(ownA) = Len(ownB) + 1
            /\ \E i \in 1..Len(ownA) :
                  /\ ownA[i].userId = r.userId
                  /\ ownA[i].price = r.price
                  /\ ownA[i].quantity = r.remainingQuantity
                  /\ ownA[i].id \notin IdsOf(ownB) \cup IdsOf(oppB)
                  /\ WithoutAt(ownA, i) = ownB
       ELSE ownA = ownB

\* C5: result accounting and rest-or-complete - an accepted submission reports
\* 0 <= filledQuantity <= quantity and filledQuantity + remainingQuantity =
\* quantity; with a remainder exactly one new order (the submitter's, at the
\* limit price, for the remainder, under an id not in the book) joins the
\* submitter's side, without a remainder no order joins either side.
RestOrComplete ==
    [][AcceptedOrder(res') =>
          IF res'.side = BUY
          THEN RestOrCompleteStep(res', bids, bids', asks, asks')
          ELSE RestOrCompleteStep(res', asks, asks', bids, bids')]_vars

\* a submission was partly filled and its remainder rests
RestOrCompleteWitness ==
    /\ AcceptedOrder(res)
    /\ res.filledQuantity > 0 /\ res.remainingQuantity > 0
    /\ \E o \in (IF res.side = BUY THEN Range(bids) ELSE Range(asks)) :
          o.userId = res.userId /\ o.quantity = res.remainingQuantity

\* ---- C6
RECURSIVE SumFills(_, _)
SumFills(fills, k) == IF k = 0 THEN 0 ELSE fills[k].quantity + SumFills(fills, k - 1)

Buyer(r, f) == IF r.side = BUY THEN r.userId ELSE f.userId

Seller(r, f) == IF r.side = BUY THEN f.userId ELSE r.userId

RECURSIVE BaseDelta(_, _, _)
BaseDelta(r, fills, u) ==
    IF fills = <<>> THEN 0
    ELSE (IF Buyer(r, Head(fills)) = u THEN Head(fills).quantity ELSE 0)
         - (IF Seller(r, Head(fills)) = u THEN Head(fills).quantity ELSE 0)
         + BaseDelta(r, Tail(fills), u)

\* quote asset moved to u, each fill valued at the price of the maker before
\* the pass
RECURSIVE QuoteDelta(_, _, _, _)
QuoteDelta(r, fills, oppB, u) ==
    IF fills = <<>> THEN 0
    ELSE LET f == Head(fills)
             m == CHOOSE o \in Range(oppB) : o.id = f.id
         IN  (IF Seller(r, f) = u THEN m.price * f.quantity ELSE 0)
             - (IF Buyer(r, f) = u THEN m.price * f.quantity ELSE 0)
             + QuoteDelta(r, Tail(fills), oppB, u)

FillStepOK(r, oppB, oppA, balB, balA) ==
    /\ \A k \in 1..Len(r.fills) :
          LET f == r.fills[k] IN
          /\ FirstFill(r.fills, f.id) = k
          /\ \E m \in Range(oppB) :
                /\ m.id = f.id /\ m.userId = f.userId
                /\ Eligible(r, m)
                /\ f.price = m.price
                /\ f.quantity = Min(r.quantity - SumFills(r.fills, k - 1), m.quantity)
                /\ IF f.quantity = m.quantity
                   THEN f.id \notin IdsOf(oppA)
                   ELSE [m EXCEPT !.quantity = m.quantity - f.quantity] \in Range(oppA)
    /\ \A o \in Range(oppA) :
          o.id \in IdsOf(oppB) /\ (FirstFill(r.fills, o.id) = 0 => o \in Range(oppB))
    /\ \A u \in DOMAIN balB :
          /\ balA[u].AAPL = balB[u].AAPL + BaseDelta(r, r.fills, u)
          /\ balA[u].USD = balB[u].USD + QuoteDelta(r, r.fills, oppB, u)

\* C6: fill step - each fill of a matching pass is against an eligible maker,
\* for min(remaining incoming quantity, maker quantity), settled at the
\* maker's price: the buyer gains the quantity and pays makerPrice*quantity,
\* the seller the inverse; the maker's quantity drops by the fill and the
\* maker leaves the book exactly when it reaches zero.
FillStep ==
    [][AcceptedOrder(res') =>
          FillStepOK(res', OppositeBefore(res'),
                     IF res'.side = BUY THEN asks' ELSE bids', users, users')]_vars

\* a fill at a maker price different from the taker's limit that left part of
\* the maker in the book
FillStepWitness ==
    /\ AcceptedOrder(res)
    /\ Len(res.fills) = 1
    /\ res.fills[1].price # res.price
    /\ res.fills[1].id \in IdsOf(IF res.side = BUY THEN asks ELSE bids)

\* ---- C7
OwnedResting(r) ==
    \E o \in BookOrders : o.id = r.cancelId /\ o.userId = r.userId

\* C7: cancellation ownership and idempotence - a cancel succeeds exactly
\* when an order of that id rests on either side and is owned by the caller;
\* after a success no order of that id is in the book or counted in depth;
\* every other cancel (repeated, unknown id, foreign owner) fails with
\* 'Order not found' and leaves the book as it was.
CancelOwnership ==
    [][res'.op = "cancel" =>
          /\ res'.status = 200 <=> OwnedResting(res')
          /\ res'.status = 200 =>
                /\ res'.cancelId \notin IdsOf(bids') \cup IdsOf(asks')
                /\ \A o \in BookOrders :
                      o.id = res'.cancelId =>
                        LET k == ToString(o.price)
                            d0 == getDepth(bids, asks)
                            d1 == getDepth(bids', asks')
                        IN  IF d0[k].quantity = o.quantity
                            THEN k \notin DOMAIN d1
                            ELSE d1[k].quantity = d0[k].quantity - o.quantity
          /\ res'.status # 200 =>
                /\ res'.status = 404 /\ res'.error = "Order not found"
                /\ UNCHANGED <<bids, asks>>]_vars

\* a cancel of an id that rests but belongs to the other account was refused
CancelOwnershipWitness ==
    /\ res.op = "cancel" /\ res.status = 404
    /\ \E o \in BookOrders : o.id = res.cancelId /\ o.userId # res.userId

\* a cancel by the owner went through and another order still rests
CancelSuccessWitness ==
    /\ res.op = "cancel" /\ res.status = 200
    /\ BookOrders # {}

\* a cancel of an id that was handed out and no longer rests was refused
CancelRepeatWitness ==
    /\ res.op = "cancel" /\ res.status = 404
    /\ res.cancelId \in {ToString(n) : n \in 1..(nextOrderId - 1)}
    /\ res.cancelId \notin IdsOf(bids) \cup IdsOf(asks)

\* ---- C8
OneRemoved(before, after) ==
    /\ Len(after) = Len(before) - 1
    /\ \E i \in 1..Len(before) : WithoutAt(before, i) = after

\* C8: cancellation frame - a successful cancel takes exactly one order out
\* of one side and changes nothing else: balances, the order-id counter and
\* every other resting order, in its place, stay as they were.
CancelFrame ==
    [][(res'.op = "cancel" /\ res'.status = 200) =>
          /\ UNCHANGED <<users, nextOrderId>>
          /\ \/ OneRemoved(bids, bids') /\ asks' = asks
             \/ OneRemoved(asks, asks') /\ bids' = bids]_vars

\* a cancel removed the first of two orders resting on the same side
CancelFrameWitness ==
    /\ res.op = "cancel" /\ res.status = 200
    /\ \/ Len(bids) = 1 /\ IdNum(bids[1].id) > IdNum(res.cancelId) /\ asks = <<>>
       \/ Len(asks) = 1 /\ IdNum(asks[1].id) > IdNum(res.cancelId) /\ bids = <<>>

\* ---- C9
Max(a, b) == IF a >= b THEN a ELSE b

RECURSIVE QtyWhere(_, _)
\* total quantity of the orders of s whose price is in the set P
QtyWhere(s, P) ==
    IF s = <<>> THEN 0
    ELSE (IF Head(s).price \in P THEN Head(s).quantity ELSE 0) + QtyWhere(Tail(s), P)

PricesOf(s) == {s[i].price : i \in 1..Len(s)}

\* the side a quote for `side` consumes
ConsumedSide(side) == IF side = SELL THEN bids ELSE asks

\* prices of s strictly better than p for a taker on `side`
BetterPrices(side, s, p) ==
    {x \in PricesOf(s) : IF side = SELL THEN x > p ELSE x < p}

\* quantity taken at price level p when q is consumed best price first
TakenAt(side, s, p, q) ==
    Max(0, Min(QtyWhere(s, {p}), q - QtyWhere(s, BetterPrices(side, s, p))))

RECURSIVE NotionalOver(_, _, _, _)
NotionalOver(side, s, P, q) ==
    IF P = {} THEN 0
    ELSE LET p == CHOOSE x \in P : TRUE
         IN  p * TakenAt(side, s, p, q) + NotionalOver(side, s, P \ {p}, q)

ExpectedNotional(side, q) ==
    NotionalOver(side, ConsumedSide(side), PricesOf(ConsumedSide(side)), q)

\* C9: quote result - a quote for q > 0 fails with 'Not enough liquidity'
\* exactly when the consumed side (asks for BUY, bids for SELL) holds less
\* than q in total; otherwise it returns the cost of consuming that side best
\* price first up to q; either way book, balances and counter are unchanged.
QuoteResult ==
    [][(res'.op = "quote" /\ res'.side \in {BUY, SELL} /\ res'.quantity > 0) =>
          /\ UNCHANGED <<users, bids, asks, nextOrderId>>
          /\ IF QtyWhere(ConsumedSide(res'.side), PricesOf(ConsumedSide(res'.side)))
                   < res'.quantity
             THEN res'.status = 400 /\ res'.error = "Not enough liquidity"
             ELSE /\ res'.status = 200
                  /\ res'.quote = ExpectedNotional(res'.side, res'.quantity)]_vars

\* a quote that was answered by walking two price levels
QuoteResultWitness ==
    /\ res.op = "quote" /\ res.status = 200
    /\ Cardinality(PricesOf(ConsumedSide(res.side))) = 2
    /\ \A p \in PricesOf(ConsumedSide(res.side)) :
          QtyWhere(ConsumedSide(res.side), {p}) < res.quantity

\* a quote that was refused although the consumed side is not empty
QuoteRefusedWitness ==
    /\ res.op = "quote" /\ res.error = "Not enough liquidity"
    /\ ConsumedSide(res.side) # <<>>

\* ---- C10
DepthOK(depth) ==
    /\ DOMAIN depth = {ToString(p) : p \in PricesOf(bids) \cup PricesOf(asks)}
    /\ \A p \in PricesOf(bids) \cup PricesOf(asks) :
          depth[ToString(p)].quantity = QtyWhere(bids, {p}) + QtyWhere(asks, {p})
    /\ \A p \in PricesOf(bids) : depth[ToString(p)].side = BUY
    /\ \A p \in PricesOf(asks) : depth[ToString(p)].side = SELL

\* C10: depth snapshot - getDepth returns one entry per price at which an
\* order rests and none for other prices; an entry's quantity is the sum of
\* the quantities resting at that price and its side is the side they rest
\* on; the request changes no state.
DepthSnapshot ==
    [][res'.op = "depth" =>
          /\ UNCHANGED <<users, bids, asks, nextOrderId>>
          /\ res'.status = 200
          /\ DepthOK(res'.depth)]_vars

\* a snapshot of a book with two orders at one price
DepthSnapshotWitness ==
    /\ res.op = "depth"
    /\ \/ Len(bids) = 2 /\ bids[1].price = bids[2].price
       \/ Len(asks) = 2 /\ asks[1].price = asks[2].price
    /\ Cardinality(DOMAIN res.depth) = 1

\* a snapshot of a book with a bid level and an ask level
DepthTwoSidedWitness ==
    /\ res.op = "depth"
    /\ bids # <<>> /\ asks # <<>>
    /\ Cardinality(DOMAIN res.depth) = 2

\* ---- C11
WithinSeed(b) ==
    \A u \in DOMAIN b : b[u].buy <= SeedUSD /\ b[u].sell <= SeedTicker

\* C11: simultaneous submissions - from the seed state, as long as the orders
\* sent so far keep, for every account, the cost of its BUY orders within its
\* seed quote balance and the size of its SELL orders within its seed base
\* balance, every one of them is accepted, in whatever order they arrive.
SimultaneousAccepted ==
    [][(res'.op = "order" /\ WithinSeed(batch')) => res'.status = 200]_vars

\* an account whose BUY orders use its whole budget had the last of them
\* accepted after an earlier one was filled
SimultaneousAcceptedWitness ==
    /\ AcceptedOrder(res) /\ res.side = BUY
    /\ WithinSeed(batch)
    /\ batch[res.userId].buy > SeedUSD - 6000
    /\ users[res.userId].USD < SeedUSD

\* ---- C13
\* a comes no later than b in the order the bid side is kept in
BidBefore(a, b) ==
    \/ a.price > b.price
    \/ a.price = b.price /\ IdNum(a.id) < IdNum(b.id) /\ a.timestamp <= b.timestamp

AskBefore(a, b) ==
    \/ a.price < b.price
    \/ a.price = b.price /\ IdNum(a.id) < IdNum(b.id) /\ a.timestamp <= b.timestamp

\* C13: book ordering - in every state between operations the bids are in
\* descending and the asks in ascending price order, orders of equal price in
\* order of arrival.
BookOrdered ==
    /\ \A i \in 1..Len(bids) : \A j \in 1..Len(bids) : i < j => BidBefore(bids[i], bids[j])
    /\ \A i \in 1..Len(asks) : \A j \in 1..Len(asks) : i < j => AskBefore(asks[i], asks[j])

\* the order that arrived last stands first on its side, at the better price
BookOrderedWitness ==
    \/ Len(bids) = 2 /\ IdNum(bids[1].id) > IdNum(bids[2].id)
    \/ Len(asks) = 2 /\ IdNum(asks[1].id) > IdNum(asks[2].id)

\* two orders of one price rest in arrival order after the first was partly filled
BookOrderedTieWitness ==
    \/ Len(bids) = 2 /\ bids[1].price = bids[2].price /\ bids[1].quantity < bids[2].quantity
    \/ Len(asks) = 2 /\ asks[1].price = asks[2].price /\ asks[1].quantity < asks[2].quantity

\* ---- C14
\* C14: resting-order well-formedness - every resting order has price > 0 and
\* quantity > 0, and no order id occurs twice across the two sides.
RestingWellFormed ==
    /\ \A o \in BookOrders : o.price > 0 /\ o.quantity > 0
    /\ IdsOf(bids) \cap IdsOf(asks) = {}
    /\ Cardinality(IdsOf(bids)) = Len(bids)
    /\ Cardinality(IdsOf(asks)) = Len(asks)

\* after a reset an order rests under an id that was in use before the
\* reset, next to the remainder of a partly filled maker
RestingWellFormedWitness ==
    /\ now > 0
    /\ nextOrderId = 2
    /\ AcceptedOrder(res) /\ Len(res.fills) = 1
    /\ \E o \in BookOrders : o.id = res.fills[1].id /\ o.quantity = 3

\* ---- C16
\* C16: distinct arrival keys - no two orders resting on the same side have
\* the same price and the same arrival timestamp.
DistinctArrivalKeys ==
    /\ \A i \in 1..Len(bids) : \A j \in 1..Len(bids) :
          i # j => <<bids[i].price, bids[i].timestamp>> # <<bids[j].price, bids[j].timestamp>>
    /\ \A i \in 1..Len(asks) : \A j \in 1..Len(asks) :
          i # j => <<asks[i].price, asks[i].timestamp>> # <<asks[j].price, asks[j].timestamp>>

\* ---- C17
\* C17: the book is never crossed - every resting bid is priced strictly
\* below every resting ask.
BookNotCrossed ==
    \A b \in Range(bids) : \A a \in Range(asks) : b.price < a.price

\* an order has just come to rest opposite an order it could not trade with
BookNotCrossedWitness ==
    /\ AcceptedOrder(res) /\ res.remainingQuantity > 0
    /\ bids # <<>> /\ asks # <<>>

\* ---- C18
\* C18: the returned order id never aliases another order - the id returned
\* by a submission that was filled completely is held by no order in the
\* book, and the id returned by one that rested is the id of its own order.
ReturnedIdNotAliased ==
    AcceptedOrder(res) =>
        IF res.remainingQuantity = 0
        THEN ToString(res.orderId) \notin IdsOf(bids) \cup IdsOf(asks)
        ELSE \E o \in BookOrders :
                /\ o.id = ToString(res.orderId)
                /\ o.userId = res.userId /\ o.price = res.price
                /\ o.quantity = res.remainingQuantity

\* ---- C15
RECURSIVE NotionalOf(_)
\* what the fills of a pass cost, each at the price it was settled at
NotionalOf(fills) ==
    IF fills = <<>> THEN 0
    ELSE Head(fills).price * Head(fills).quantity + NotionalOf(Tail(fills))

TakerAffordable(r, balB, balA) ==
    IF r.side = BUY
    THEN /\ NotionalOf(r.fills) <= r.price * r.filledQuantity
         /\ r.price * r.filledQuantity <= r.price * r.quantity
         /\ r.price * r.quantity <= balB[r.userId].USD
         /\ balA[r.userId].USD >= balB[r.userId].USD - NotionalOf(r.fills)
         /\ balA[r.userId].USD >= 0
    ELSE /\ SumFills(r.fills, Len(r.fills)) = r.filledQuantity
         /\ r.filledQuantity <= r.quantity
         /\ r.quantity <= balB[r.userId].AAPL
         /\ balA[r.userId].AAPL >= balB[r.userId].AAPL - r.filledQuantity
         /\ balA[r.userId].AAPL >= 0

\* C15: taker affordability - what the submitting account is debited over
\* all fills of an accepted matching pass never exceeds what was validated
\* (BUY: at most price*filledQuantity <= price*quantity of the quote asset,
\* SELL: at most quantity of the base asset), so after the pass its balance in
\* the asset it pays is >= 0.
TakerAffordability ==
    [][AcceptedOrder(res') => TakerAffordable(res', users, users')]_vars

\* a BUY filled below its limit by a maker other than the submitter
TakerAffordabilityWitness ==
    /\ AcceptedOrder(res) /\ res.side = BUY
    /\ res.fills # <<>>
    /\ \A k \in 1..Len(res.fills) : res.fills[k].userId # res.userId
    /\ NotionalOf(res.fills) < res.price * res.filledQuantity
    /\ users[res.userId].USD + NotionalOf(res.fills) >= res.price * res.quantity

\* a SELL that delivered its whole quantity over two fills
TakerAffordabilitySellWitness ==
    /\ AcceptedOrder(res) /\ res.side = SELL
    /\ Len(res.fills) = 2 /\ res.filledQuantity = res.quantity

\* ---- C19
\* the matching loop with the continue replaced by a break
RECURSIVE stopLoop(_, _, _, _, _, _, _, _)
stopLoop(side, userId, price, i, opp, bal, remainingQuantity, fills) ==
    IF ~(i <= Len(opp) /\ remainingQuantity > 0) \/ Ineligible(side, opp[i], price)
    THEN [opp |-> opp, bal |-> bal, remainingQuantity |-> remainingQuantity,
          fills |-> fills]
    ELSE LET order == opp[i]
             fillQuantity == fillQuantityOf(remainingQuantity, order)
             fill == [id |-> order.id, userId |-> order.userId,
                      price |-> order.price, quantity |-> fillQuantity]
             bal2 == updateBalances(bal, order.userId, userId, order.price,
                                    fillQuantity, side)
         IN  IF fillQuantity = order.quantity
             THEN stopLoop(side, userId, price, i, RemoveAt(opp, i), bal2,
                           remainingQuantity - fillQuantity, Append(fills, fill))
             ELSE stopLoop(side, userId, price, i + 1,
                           [opp EXCEPT ![i].quantity = @ - fillQuantity],
                           bal2, remainingQuantity - fillQuantity,
                           Append(fills, fill))

SkipEqualsStopStep(r, oppB, oppA, balB, balA) ==
    LET sorted == sortOpposite(r.side, oppB)
        s == stopLoop(r.side, r.userId, r.price, 1, sorted, balB, r.quantity, <<>>)
    IN  /\ s.fills = r.fills
        /\ s.bal = balA
        /\ s.opp = oppA
        /\ r.quantity - s.remainingQuantity = r.filledQuantity
        /\ s.remainingQuantity = r.remainingQuantity
        /\ \A i \in 1..Len(sorted) : \A j \in 1..Len(sorted) :
              (i < j /\ Ineligible(r.side, sorted[i], r.price))
                  => Ineligible(r.side, sorted[j], r.price)

\* C19: skip-and-continue equals stop-at-first-ineligible - for every accepted
\* order the matching pass leaves the same fills, balances, opposite side and
\* result as a pass that stops at the first ineligible opposite order; in the
\* iteration order no eligible order comes after an ineligible one.
SkipEqualsStop ==
    [][AcceptedOrder(res') =>
          SkipEqualsStopStep(res', OppositeBefore(res'),
                             IF res'.side = BUY THEN asks' ELSE bids',
                             users, users')]_vars

\* the pass met an order outside the limit while quantity was still wanted
SkipEqualsStopWitness ==
    /\ AcceptedOrder(res)
    /\ res.remainingQuantity > 0
    /\ \E o \in Range(IF res.side = BUY THEN asks ELSE bids) :
          Ineligible(res.side, o, res.price) /\ o.userId # res.userId

\* ---- C20
RECURSIVE WalkedPrices(_, _)
\* the prices of the orders a quote takes quantity from
WalkedPrices(sortedOrders, remainingQuantity) ==
    IF sortedOrders = <<>> \/ remainingQuantity <= 0 THEN {}
    ELSE {Head(sortedOrders).price}
         \cup WalkedPrices(Tail(sortedOrders),
                           remainingQuantity - Min(remainingQuantity,
                                                   Head(sortedOrders).quantity))

QuoteSorted(side, bs, as) ==
    IF side = SELL THEN SortStable("quoteSell", bs) ELSE SortStable("quoteBuy", as)

\* the limit of r is at least as permissive as every price the quote walked
Permissive(r, walked) ==
    \A p \in walked : IF r.side = BUY THEN r.price >= p ELSE r.price <= p

QuoteAgrees(r, bs, as) ==
    LET q == getQuote(r.side, r.quantity, bs, as)
        walked == WalkedPrices(QuoteSorted(r.side, bs, as), r.quantity)
    IN  (q.remainingQuantity <= 0 /\ Permissive(r, walked)) =>
            /\ r.filledQuantity = r.quantity
            /\ r.remainingQuantity = 0
            /\ NotionalOf(r.fills) = q.totalCost

\* C20: quote agrees with execution - when a quote for (side, q) succeeds
\* with notional N, an order (side, p, q) accepted in the same state whose
\* limit p reaches every price the quote walked is filled completely and
\* the maker price times quantity of its fills sums to N.
QuoteAgreesWithExecution ==
    [][AcceptedOrder(res') => QuoteAgrees(res', bids, asks)]_vars

\* a SELL that executed over two price levels for what the quote announced
QuoteAgreesWithExecutionWitness ==
    /\ AcceptedOrder(res) /\ res.side = SELL
    /\ res.remainingQuantity = 0
    /\ Len(res.fills) = 2
    /\ res.fills[1].price > res.fills[2].price
    /\ res.fills[2].price >= res.price

\* a BUY that executed below its limit for what the quote announced
QuoteAgreesBuyWitness ==
    /\ AcceptedOrder(res) /\ res.side = BUY
    /\ res.remainingQuantity = 0
    /\ Len(res.fills) = 1
    /\ res.fills[1].price < res.price

====
